---- MODULE Spec2Model ----
(***************************************************************************)
(* Huffman encoder/decoder (MichaelDipperstein/huffman).                   *)
(*                                                                         *)
(* Three programs are modelled, selected by `variant`:                     *)
(*   "trad"  the library traditional coder  (HuffmanEncodeFile /           *)
(*           HuffmanDecodeFile, huffman.c + huflocal)                      *)
(*   "clib"  the library canonical coder    (CHuffmanEncodeFile /          *)
(*           CHuffmanDecodeFile, library chuffman.c)                       *)
(*   "csa"   the stand-alone canonical coder (chuffman.c with main)        *)
(* A run encodes `input` to `file` in one process and decodes `file` to    *)
(* `output` in a second process.                                           *)
(***************************************************************************)
EXTENDS Integers, Sequences, FiniteSets, TLC

(***************************************************************************)
(* Bounds of the model.                                                    *)
(***************************************************************************)
MaxLen == 3

MaxLenTrunc == 4

MaxLenTail == 2

MaxLenCount == 3

MaxLenTwo == 2

MaxShift == 300

MaxBits == 9

MaxHeaderLen == 3

BuildElements == 4

MaxLenLarge == 1

MaxTail == 33

TailBytes == {0, 255}

ByteAlphabet == {0, 65, 255}

GarbageBytes == {0, 7}

Variants == {"trad", "clib", "csa"}

(***************************************************************************)
(* Program constants.                                                      *)
(***************************************************************************)
NONE == -1

NULL == 0

WILD == -2

COMPOSITE_NODE == -1

EOF_CHAR == 256

INT_MAX == 2147483647

NUM_BYTES == 32

LAST_BYTE == 31

NUM_CHARS(v) == IF v = "csa" THEN 256 ELSE 257

(***************************************************************************)
(* count_t: unsigned 32 bit, kept as <<high 16 bits, low 16 bits>>.        *)
(***************************************************************************)
CZero == <<0, 0>>

COne == <<0, 1>>

COUNT_T_MAX == <<65535, 65535>>

INT_MAX_AS_UNSIGNED == <<32767, 65535>>

CLess(a, b) == a[1] < b[1] \/ (a[1] = b[1] /\ a[2] < b[2])

CAdd(a, b) ==
    LET lo == a[2] + b[2]
        hi == a[1] + b[1] + (lo \div 65536)
    IN  <<hi % 65536, lo % 65536>>

CInc(a) == CAdd(a, COne)

CDec(a) ==
    IF a[2] > 0 THEN <<a[1], a[2] - 1>>
    ELSE <<(a[1] + 65535) % 65536, 65535>>

\* the four bytes of a count_t in memory order (little-endian layout)
CountBytes(c) == <<c[2] % 256, c[2] \div 256, c[1] % 256, c[1] \div 256>>

BytesCountSwapped(b) == <<b[2] + 256 * b[1], b[4] + 256 * b[3]>>

BytesCount(b) == <<b[3] + 256 * b[4], b[1] + 256 * b[2]>>

Max(a, b) == IF a > b THEN a ELSE b

(***************************************************************************)
(* Byte arithmetic.                                                        *)
(***************************************************************************)
Pow2(n) == IF n = 0 THEN 1 ELSE IF n = 1 THEN 2 ELSE IF n = 2 THEN 4
           ELSE IF n = 3 THEN 8 ELSE IF n = 4 THEN 16 ELSE IF n = 5 THEN 32
           ELSE IF n = 6 THEN 64 ELSE IF n = 7 THEN 128 ELSE 256

RECURSIVE Or8(_, _, _)
Or8(a, b, n) ==
    IF n = 0 THEN 0
    ELSE (IF a % 2 = 1 \/ b % 2 = 1 THEN 1 ELSE 0)
         + 2 * Or8(a \div 2, b \div 2, n - 1)

OrByte(a, b) == Or8(a, b, 8)

(***************************************************************************)
(* 256 bit arrays (bitop256.c): 32 bytes, index 0 first, bit 0 is the      *)
(* most significant bit of byte 0.  Arrays are functions on 0..31.         *)
(***************************************************************************)
\* an array as an explicit table of its elements
Array(f) == f @@ << >>

ClearAll256 == Array([i \in 0..LAST_BYTE |-> 0])

SetBit256(bits, bit) ==
    LET byte == bit \div 8
        b    == bit % 8
    IN  [bits EXCEPT ![byte] = OrByte(@, 128 \div Pow2(b))]

TestBit256(bits, bit) ==
    LET byte == bit \div 8
        b    == bit % 8
    IN  (bits[byte] \div (128 \div Pow2(b))) % 2 = 1

Copy256(src) == src

LeftShift256(bits, shifts) ==
    LET bytes == shifts \div 8
        s     == shifts % 8
        jump  == IF bytes > 0
                 THEN Array([i \in 0..LAST_BYTE |->
                                IF i + bytes < NUM_BYTES THEN bits[i + bytes] ELSE 0])
                 ELSE bits
    IN  IF s > 0
        THEN Array([i \in 0..LAST_BYTE |->
                       OrByte((jump[i] * Pow2(s)) % 256,
                              IF i < LAST_BYTE
                              THEN (jump[i + 1] * Pow2(s)) \div 256 ELSE 0)])
        ELSE jump

\* the indices of the array LeftShift256 reads or writes: the loop of byte
\* jumps, the loop that zeroes bits[NUM_BYTES - bytes] for bytes down to 1,
\* and the loop of the remaining bit shifts
LeftShift256Indices(shifts) ==
    LET bytes == shifts \div 8
        s     == shifts % 8
    IN  (IF bytes > 0
         THEN UNION {{i, i + bytes} : i \in {j \in 0..LAST_BYTE : j + bytes < NUM_BYTES}}
                  \cup {NUM_BYTES - b : b \in 1..bytes}
         ELSE {})
        \cup (IF s > 0 THEN 0..LAST_BYTE ELSE {})

\* the same for RightShift256, which zeroes bits[bytes - 1] for bytes down
\* to 1
RightShift256Indices(shifts) ==
    LET bytes == shifts \div 8
        s     == shifts % 8
    IN  (IF bytes > 0
         THEN UNION {{i, i - bytes} : i \in {j \in 0..LAST_BYTE : j - bytes >= 0}}
                  \cup {b - 1 : b \in 1..bytes}
         ELSE {})
        \cup (IF s > 0 THEN 0..LAST_BYTE ELSE {})

RightShift256None(bits, shifts) == bits

RightShift256(bits, shifts) ==
    LET bytes == shifts \div 8
        s     == shifts % 8
        jump  == IF bytes > 0
                 THEN Array([i \in 0..LAST_BYTE |->
                                IF i - bytes >= 0 THEN bits[i - bytes] ELSE 0])
                 ELSE bits
    IN  IF s > 0
        THEN Array([i \in 0..LAST_BYTE |->
                       OrByte(jump[i] \div Pow2(s),
                              IF i > 0
                              THEN (jump[i - 1] * Pow2(8 - s)) % 256 ELSE 0)])
        ELSE jump

Increment256Stuck(bits) == bits

RECURSIVE Increment256Loop(_, _)
Increment256Loop(bits, i) ==
    IF i < 0 THEN bits
    ELSE IF bits[i] # 255 THEN [bits EXCEPT ![i] = @ + 1]
    ELSE Increment256Loop([bits EXCEPT ![i] = 0], i - 1)

Increment256(bits) == Increment256Loop(bits, LAST_BYTE)

RECURSIVE Compare256Loop(_, _, _)
Compare256Loop(bits1, bits2, i) ==
    IF i >= NUM_BYTES THEN 0
    ELSE IF bits1[i] # bits2[i] THEN bits1[i] - bits2[i]
    ELSE Compare256Loop(bits1, bits2, i + 1)

Compare256(bits1, bits2) == Compare256Loop(bits1, bits2, 0)

(***************************************************************************)
(* The bit array library used by the library coders (interface in          *)
(* bitarray.h): 256 bit arrays with the same layout as bitop256.c.         *)
(***************************************************************************)
BitArrayClearAll == ClearAll256

BitArrayShiftLeft(ba, shifts) ==
    IF shifts >= 256 THEN ClearAll256 ELSE LeftShift256(ba, shifts)

BitArrayShiftRight(ba, shifts) ==
    IF shifts >= 256 THEN ClearAll256 ELSE RightShift256(ba, shifts)

BitArraySetBit(ba, bit) == SetBit256(ba, bit)

BitArrayTestBit(ba, bit) == TestBit256(ba, bit)

BitArrayIncrement(ba) == Increment256(ba)

BitArrayCompare(ba1, ba2) == Compare256(ba1, ba2)

\* the first n bits of a left justified code, most significant first
RECURSIVE CodeBitsFrom(_, _, _)
CodeBitsFrom(code, i, n) ==
    IF i >= n THEN << >>
    ELSE <<IF TestBit256(code, i) THEN 1 ELSE 0>> \o CodeBitsFrom(code, i + 1, n)

CodeBits(code, n) == CodeBitsFrom(code, 0, n)

(***************************************************************************)
(* Tree nodes live in `heap`, a sequence of huffman_node_t; a pointer is   *)
(* an index into it, NULL is 0.                                            *)
(***************************************************************************)
AllocHuffmanNode(value) ==
    [count |-> CZero, ignore |-> TRUE, left |-> NULL, level |-> 0,
     parent |-> NULL, right |-> NULL, value |-> value]

\* the level of the new node taken as that of the deeper child
AllocHuffmanCompositeNodeFlat(h, left, right) ==
    LET ht  == Len(h) + 1
        new == [count  |-> CAdd(h[left].count, h[right].count),
                ignore |-> FALSE,
                left   |-> left,
                level  |-> Max(h[left].level, h[right].level),
                parent |-> NULL,
                right  |-> right,
                value  |-> COMPOSITE_NODE]
        h1  == [h EXCEPT ![left] = [@ EXCEPT !.parent = ht]]
        h2  == [h1 EXCEPT ![right] = [@ EXCEPT !.parent = ht]]
    IN  Append(h2, new)

\* returns the heap after the allocation; the new node is the last one
AllocHuffmanCompositeNode(h, left, right) ==
    LET ht  == Len(h) + 1
        new == [count  |-> CAdd(h[left].count, h[right].count),
                ignore |-> FALSE,
                left   |-> left,
                level  |-> Max(h[left].level, h[right].level) + 1,
                parent |-> NULL,
                right  |-> right,
                value  |-> COMPOSITE_NODE]
        h1  == [h EXCEPT ![left] = [@ EXCEPT !.parent = ht]]
        h2  == [h1 EXCEPT ![right] = [@ EXCEPT !.parent = ht]]
    IN  Append(h2, new)

\* the leaves allocated by the loops at the start of GenerateTreeFromFile
\* and of the decoders: huffmanArray[c] points to the c-th allocation
RECURSIVE AllocRange(_, _)
AllocRange(lo, hi) ==
    IF lo > hi THEN << >>
    ELSE IF lo = hi THEN <<AllocHuffmanNode(lo)>>
    ELSE LET mid == (lo + hi) \div 2
         IN  AllocRange(lo, mid) \o AllocRange(mid + 1, hi)

AllocLeaves(n) == AllocRange(0, n - 1)

LeafArray(n) == Array([c \in 0..(n - 1) |-> c + 1])

\* one iteration of the search loop of FindMinimumCount.  currentCount is
\* the comparison of counts and levels left out: any active node is taken
FindMinimumCountStepLastActive(h, ht, i, cur) ==
    IF /\ ht[i] # NULL
       /\ ~h[ht[i]].ignore
    THEN [currentIndex |-> i, currentCount |-> h[ht[i]].count,
          currentLevel |-> h[ht[i]].level]
    ELSE cur

\* an int compared with an unsigned count: it is kept as the unsigned
\* value the comparison sees
FindMinimumCountStep(h, ht, i, cur) ==
    IF /\ ht[i] # NULL
       /\ ~h[ht[i]].ignore
       /\ \/ CLess(h[ht[i]].count, cur.currentCount)
          \/ /\ h[ht[i]].count = cur.currentCount
             /\ h[ht[i]].level < cur.currentLevel
    THEN [currentIndex |-> i, currentCount |-> h[ht[i]].count,
          currentLevel |-> h[ht[i]].level]
    ELSE cur

\* the iterations lo..hi of the loop, in order
RECURSIVE FindMinimumCountLoop(_, _, _, _, _)
FindMinimumCountLoop(h, ht, lo, hi, cur) ==
    IF lo > hi THEN cur
    ELSE IF lo = hi THEN FindMinimumCountStep(h, ht, lo, cur)
    ELSE LET mid   == (lo + hi) \div 2
             first == FindMinimumCountLoop(h, ht, lo, mid, cur)
         IN  IF first.currentIndex >= NONE
             THEN FindMinimumCountLoop(h, ht, mid + 1, hi, first)
             ELSE first

FindMinimumCount(h, ht, elements) ==
    FindMinimumCountLoop(h, ht, 0, elements - 1,
                         [currentIndex |-> NONE,
                          currentCount |-> INT_MAX_AS_UNSIGNED,
                          currentLevel |-> INT_MAX]).currentIndex

\* returns [heap, ht, root]; root is WILD when the code returns ht[NONE]
RECURSIVE BuildHuffmanTree(_, _, _)
BuildHuffmanTree(h, ht, elements) ==
    LET min1 == FindMinimumCount(h, ht, elements)
    IN  IF min1 = NONE
        THEN [heap |-> h, ht |-> ht, root |-> WILD]
        ELSE LET h1   == [h EXCEPT ![ht[min1]] = [@ EXCEPT !.ignore = TRUE]]
                 min2 == FindMinimumCount(h1, ht, elements)
             IN  IF min2 = NONE
                 THEN [heap |-> h1, ht |-> ht, root |-> ht[min1]]
                 ELSE LET h2  == [h1 EXCEPT ![ht[min2]] = [@ EXCEPT !.ignore = TRUE]]
                          h3  == AllocHuffmanCompositeNode(h2, ht[min1], ht[min2])
                          ht1 == [ht EXCEPT ![min1] = Len(h3), ![min2] = NULL]
                      IN  BuildHuffmanTree(h3, ht1, elements)

\* the tree below a node as a value: a leaf is <<value, count>>, a
\* composite node is <<left subtree, right subtree>>
RECURSIVE TreeOf(_, _)
TreeOf(h, n) ==
    IF h[n].left = NULL /\ h[n].right = NULL
    THEN <<"leaf", h[n].value, h[n].count>>
    ELSE <<"node", TreeOf(h, h[n].left), TreeOf(h, h[n].right)>>

\* FreeHuffmanTree: the nodes passed to free(), in order
RECURSIVE FreeHuffmanTree(_, _)
FreeHuffmanTree(h, ht) ==
    (IF h[ht].left # NULL THEN FreeHuffmanTree(h, h[ht].left) ELSE << >>)
        \o (IF h[ht].right # NULL THEN FreeHuffmanTree(h, h[ht].right) ELSE << >>)
        \o <<ht>>

(***************************************************************************)
(* GenerateTreeFromFile: the counting loop, then BuildHuffmanTree.  `ok`   *)
(* is FALSE when a count cannot be incremented.                            *)
(***************************************************************************)
RECURSIVE CountLoop(_, _, _, _)
CountLoop(h, ht, in, i) ==
    IF i > Len(in) THEN [ok |-> TRUE, heap |-> h]
    ELSE LET c == in[i]
         IN  IF CLess(h[ht[c]].count, COUNT_T_MAX)
             THEN CountLoop([h EXCEPT ![ht[c]] =
                                [@ EXCEPT !.count = CInc(@), !.ignore = FALSE]],
                            ht, in, i + 1)
             ELSE [ok |-> FALSE, heap |-> h]

\* one iteration of the counting loop (library)
CountStepWrap(h, ht, c) ==
    [ok   |-> TRUE,
     heap |-> [h EXCEPT ![ht[c]] = [@ EXCEPT !.count = CInc(@), !.ignore = FALSE]]]

CountStep(h, ht, c) ==
    IF CLess(h[ht[c]].count, COUNT_T_MAX)
    THEN [ok   |-> TRUE,
          heap |-> [h EXCEPT ![ht[c]] =
                      [@ EXCEPT !.count = CInc(@), !.ignore = FALSE]]]
    ELSE [ok |-> FALSE, heap |-> h]

\* one iteration of the counting loop (stand-alone)
CCountStep(h, ht, c, total) ==
    IF CLess(total, COUNT_T_MAX)
    THEN [ok    |-> TRUE,
          heap  |-> [h EXCEPT ![ht[c]] =
                       [@ EXCEPT !.count = CInc(@), !.ignore = FALSE]],
          total |-> CInc(total)]
    ELSE [ok |-> FALSE, heap |-> h, total |-> total]

\* library version (huflocal): EOF is counted once before the loop
GenerateTreeFromFile(in) ==
    LET ht == LeafArray(257)
        h0 == AllocLeaves(257)
        h1 == [h0 EXCEPT ![ht[EOF_CHAR]] =
                  [@ EXCEPT !.count = COne, !.ignore = FALSE]]
        r  == CountLoop(h1, ht, in, 1)
    IN  IF ~r.ok
        THEN [ok |-> FALSE, heap |-> r.heap, ht |-> ht, root |-> NULL,
              counted |-> r.heap]
        ELSE LET b == BuildHuffmanTree(r.heap, ht, 257)
             IN  [ok |-> TRUE, heap |-> b.heap, ht |-> b.ht, root |-> b.root,
                  counted |-> r.heap]

\* stand-alone chuffman.c: no EOF leaf, the total is checked instead
RECURSIVE CCountLoop(_, _, _, _, _)
CCountLoop(h, ht, in, i, total) ==
    IF i > Len(in) THEN [ok |-> TRUE, heap |-> h, total |-> total]
    ELSE LET c == in[i]
         IN  IF CLess(total, COUNT_T_MAX)
             THEN CCountLoop([h EXCEPT ![ht[c]] =
                                [@ EXCEPT !.count = CInc(@), !.ignore = FALSE]],
                             ht, in, i + 1, CInc(total))
             ELSE [ok |-> FALSE, heap |-> h, total |-> total]

CGenerateTreeFromFile(in, total) ==
    LET ht == LeafArray(256)
        h0 == AllocLeaves(256)
        r  == CCountLoop(h0, ht, in, 1, total)
    IN  IF ~r.ok
        THEN [ok |-> FALSE, heap |-> r.heap, ht |-> ht, root |-> NULL,
              counted |-> r.heap, total |-> r.total]
        ELSE LET b == BuildHuffmanTree(r.heap, ht, 256)
             IN  [ok |-> TRUE, heap |-> b.heap, ht |-> b.ht, root |-> b.root,
                  counted |-> r.heap, total |-> r.total]

(***************************************************************************)
(* MakeCodeList (traditional): iterative walk with parent pointers.        *)
(***************************************************************************)
NoCode == << >>

EmptyCodeList == Array([c \in 0..256 |-> [codeLen |-> 0, code |-> NoCode]])

RECURSIVE MakeCodeListDescend(_, _)
MakeCodeListDescend(h, st) ==
    IF h[st.ht].left # NULL
    THEN MakeCodeListDescend(h, [ht    |-> h[st.ht].left,
                                 depth |-> (st.depth + 1) % 256,
                                 code  |-> BitArrayShiftLeft(st.code, 1)])
    ELSE st

RECURSIVE MakeCodeListClimb(_, _)
MakeCodeListClimbNoSetBit(h, st) ==
    IF h[st.ht].parent = NULL THEN st
    ELSE IF st.ht # h[h[st.ht].parent].right
         THEN [ht    |-> h[h[st.ht].parent].right,
               depth |-> st.depth,
               code  |-> st.code]
         ELSE MakeCodeListClimb(h, [ht    |-> h[st.ht].parent,
                                    depth |-> (st.depth + 255) % 256,
                                    code  |-> BitArrayShiftRight(st.code, 1)])

MakeCodeListClimb(h, st) ==
    IF h[st.ht].parent = NULL THEN st
    ELSE IF st.ht # h[h[st.ht].parent].right
         THEN [ht    |-> h[h[st.ht].parent].right,
               depth |-> st.depth,
               code  |-> BitArraySetBit(st.code, 255)]
         ELSE MakeCodeListClimb(h, [ht    |-> h[st.ht].parent,
                                    depth |-> (st.depth + 255) % 256,
                                    code  |-> BitArrayShiftRight(st.code, 1)])

RECURSIVE MakeCodeListLoop(_, _, _)
MakeCodeListLoop(h, st, cl) ==
    LET d   == MakeCodeListDescend(h, st)
        cl1 == IF h[d.ht].value # COMPOSITE_NODE
               THEN [cl EXCEPT ![h[d.ht].value] =
                        [codeLen |-> d.depth,
                         code    |-> BitArrayShiftLeft(d.code, 256 - d.depth)]]
               ELSE cl
        u   == MakeCodeListClimb(h, d)
    IN  IF h[u.ht].parent = NULL THEN cl1
        ELSE MakeCodeListLoop(h, u, cl1)

MakeCodeList(h, ht, cl) ==
    MakeCodeListLoop(h, [ht |-> ht, depth |-> 0, code |-> BitArrayClearAll], cl)

(***************************************************************************)
(* Bit file: bytes are written most significant bit first; BitFileClose    *)
(* pads the last byte with zero bits.                                      *)
(***************************************************************************)
RECURSIVE PackBitsFrom(_, _)
PackBitsFrom(bits, i) ==
    IF i > Len(bits) THEN << >>
    ELSE LET Bit(k) == IF i + k <= Len(bits) THEN bits[i + k] ELSE 0
         IN  <<128 * Bit(0) + 64 * Bit(1) + 32 * Bit(2) + 16 * Bit(3)
               + 8 * Bit(4) + 4 * Bit(5) + 2 * Bit(6) + Bit(7)>>
             \o PackBitsFrom(bits, i + 8)

PackBits(bits) == PackBitsFrom(bits, 1)

\* bit number n (from 0) of a byte sequence, most significant bit first
BitAt(bytes, n) == (bytes[(n \div 8) + 1] \div Pow2(7 - (n % 8))) % 2

(***************************************************************************)
(* WriteHeader (traditional): one (symbol, count) record per leaf other    *)
(* than EOF, then the zero record.                                         *)
(***************************************************************************)
RECURSIVE WriteHeaderDescend(_, _)
\* the branch followed all the way right
WriteHeaderDescendRight(h, ht) ==
    IF h[ht].right # NULL THEN WriteHeaderDescend(h, h[ht].right) ELSE ht

WriteHeaderDescend(h, ht) ==
    IF h[ht].left # NULL THEN WriteHeaderDescend(h, h[ht].left) ELSE ht

RECURSIVE WriteHeaderClimb(_, _)
WriteHeaderClimb(h, ht) ==
    IF h[ht].parent = NULL THEN ht
    ELSE IF ht # h[h[ht].parent].right THEN h[h[ht].parent].right
    ELSE WriteHeaderClimb(h, h[ht].parent)

RECURSIVE WriteHeaderLoop(_, _, _)
WriteHeaderLoop(h, ht, out) ==
    LET d    == WriteHeaderDescend(h, ht)
        out1 == IF h[d].value # COMPOSITE_NODE /\ h[d].value # EOF_CHAR
                THEN out \o <<h[d].value>> \o CountBytes(h[d].count)
                ELSE out
        u    == WriteHeaderClimb(h, d)
    IN  IF h[u].parent = NULL THEN out1
        ELSE WriteHeaderLoop(h, u, out1)

WriteHeader(h, ht) == WriteHeaderLoop(h, ht, << >>) \o <<0, 0, 0, 0, 0>>

\* the encode loop of HuffmanEncodeFile followed by the EOF code
RECURSIVE EncodeLoop(_, _, _)
EncodeLoop(cl, in, i) ==
    IF i > Len(in) THEN << >>
    ELSE CodeBits(cl[in[i]].code, cl[in[i]].codeLen) \o EncodeLoop(cl, in, i + 1)

HuffmanEncodeBitsNoEOF(cl, in) == EncodeLoop(cl, in, 1)

HuffmanEncodeBits(cl, in) ==
    EncodeLoop(cl, in, 1) \o CodeBits(cl[EOF_CHAR].code, cl[EOF_CHAR].codeLen)

(***************************************************************************)
(* ReadHeader (traditional).  `count` is an uninitialised local: `junk`    *)
(* is what its four bytes hold on entry.  BitFileGetBits stores the bytes  *)
(* it could read and leaves the others as they were.                       *)
(***************************************************************************)
RECURSIVE BitFileGetBytes(_, _, _, _)
BitFileGetBytes(f, pos, dest, k) ==
    IF k > 4 \/ pos + k > Len(f) THEN dest
    ELSE BitFileGetBytes(f, pos, [dest EXCEPT ![k] = f[pos + k]], k + 1)

RECURSIVE ReadHeaderLoop(_, _, _, _, _)
ReadHeaderLoop(h, ht, f, pos, count) ==
    IF pos >= Len(f)
    THEN [heap |-> h, status |-> FALSE, pos |-> pos]
    ELSE LET c      == f[pos + 1]
             count1 == BitFileGetBytes(f, pos + 1, count, 1)
             pos1   == IF pos + 5 <= Len(f) THEN pos + 5 ELSE Len(f)
         IN  IF BytesCount(count1) = CZero /\ c = 0
             THEN [heap |-> h, status |-> TRUE, pos |-> pos1]
             ELSE ReadHeaderLoop([h EXCEPT ![ht[c]] =
                                    [@ EXCEPT !.count = BytesCount(count1),
                                              !.ignore = FALSE]],
                                 ht, f, pos1, count1)

ReadHeader(h, ht, f, junk) ==
    LET r == ReadHeaderLoop(h, ht, f, 0, junk)
    IN  [heap   |-> [r.heap EXCEPT ![ht[EOF_CHAR]] =
                        [@ EXCEPT !.count = COne, !.ignore = FALSE]],
         status |-> r.status,
         pos    |-> r.pos]

(***************************************************************************)
(* Canonical code.  A canonical list is a function on 0..NUM_CHARS-1 of    *)
(* canonical_list_t.                                                       *)
(***************************************************************************)
CompareByCodeLen(item1, item2) ==
    IF item1.codeLen > item2.codeLen THEN 1
    ELSE IF item1.codeLen < item2.codeLen THEN -1
    ELSE IF item1.value > item2.value THEN 1
    ELSE -1

CompareBySymbolValue(item1, item2) ==
    IF item1.value > item2.value THEN 1 ELSE -1

Compare(cmp, item1, item2) ==
    IF cmp = "CompareByCodeLen" THEN CompareByCodeLen(item1, item2)
    ELSE CompareBySymbolValue(item1, item2)

\* qsort: the items are put in the order of the comparison.  Each item is
\* tagged with its position so that the pivot is compared with the others
\* only; the comparisons never return 0
RECURSIVE QuickSort(_, _)
QuickSort(s, cmp) ==
    IF Len(s) <= 1 THEN s
    ELSE LET p  == s[(Len(s) + 1) \div 2]
             lo == SelectSeq(s, LAMBDA x : x.at # p.at /\ Compare(cmp, x.item, p.item) < 0)
             hi == SelectSeq(s, LAMBDA x : x.at # p.at /\ Compare(cmp, x.item, p.item) > 0)
         IN  QuickSort(lo, cmp) \o <<p>> \o QuickSort(hi, cmp)

qsort(cl, n, cmp) ==
    LET s == QuickSort([k \in 1..n |-> [at |-> k, item |-> cl[k - 1]]], cmp)
    IN  Array([i \in 0..(n - 1) |-> s[i + 1].item])

\* the tree walk of BuildCanonicalCode: fills in the code lengths
RECURSIVE BuildCanonicalCodeDescend(_, _)
BuildCanonicalCodeDescend(h, st) ==
    IF h[st.ht].left # NULL
    THEN BuildCanonicalCodeDescend(h, [ht    |-> h[st.ht].left,
                                       depth |-> (st.depth + 1) % 256])
    ELSE st

RECURSIVE BuildCanonicalCodeClimb(_, _)
BuildCanonicalCodeClimb(h, st) ==
    IF h[st.ht].parent = NULL THEN st
    ELSE IF st.ht # h[h[st.ht].parent].right
         THEN [ht |-> h[h[st.ht].parent].right, depth |-> st.depth]
         ELSE BuildCanonicalCodeClimb(h, [ht    |-> h[st.ht].parent,
                                          depth |-> (st.depth + 255) % 256])

\* "handle one symbol trees": a leaf found at depth 0 gets depth 1
OneSymbolTreeDepthKept(depth) == depth

OneSymbolTreeDepth(depth) == IF depth = 0 THEN (depth + 1) % 256 ELSE depth

RECURSIVE BuildCanonicalCodeLoop(_, _, _)
BuildCanonicalCodeLoop(h, st, cl) ==
    LET d   == BuildCanonicalCodeDescend(h, st)
        d1  == IF h[d.ht].value # COMPOSITE_NODE
               THEN [d EXCEPT !.depth = OneSymbolTreeDepth(d.depth)] ELSE d
        cl1 == IF h[d.ht].value # COMPOSITE_NODE
               THEN [cl EXCEPT ![h[d.ht].value] = [@ EXCEPT !.codeLen = d1.depth]]
               ELSE cl
        u   == BuildCanonicalCodeClimb(h, d1)
    IN  IF h[u.ht].parent = NULL THEN cl1
        ELSE BuildCanonicalCodeLoop(h, u, cl1)

RECURSIVE AssignCanonicalCodesLoop(_, _, _, _)
AssignCanonicalCodesLoop(cl, i, length, code) ==
    IF i < 0 THEN cl
    ELSE IF cl[i].codeLen = 0 THEN cl
    ELSE LET shorter == cl[i].codeLen < length
             code1   == IF shorter
                        THEN RightShift256(code, length - cl[i].codeLen)
                        ELSE code
             length1 == IF shorter THEN cl[i].codeLen ELSE length
         IN  AssignCanonicalCodesLoop(
                 [cl EXCEPT ![i] = [@ EXCEPT !.code =
                               LeftShift256(Copy256(code1), 256 - length1)]],
                 i - 1, length1, Increment256(code1))

AssignCanonicalCodes(cl, n) ==
    AssignCanonicalCodesLoop(cl, n - 1, cl[n - 1].codeLen, ClearAll256)

\* the list after the initialisation loop of BuildCanonicalCode
InitCanonicalList(n) ==
    Array([i \in 0..(n - 1) |-> [value |-> i, codeLen |-> 0, code |-> NoCode]])

BuildCanonicalCode(h, ht, n) ==
    LET cl0 == InitCanonicalList(n)
        cl1 == BuildCanonicalCodeLoop(h, [ht |-> ht, depth |-> 0], cl0)
        cl2 == qsort(cl1, n, "CompareByCodeLen")
        cl3 == AssignCanonicalCodes(cl2, n)
    IN  qsort(cl3, n, "CompareBySymbolValue")

(***************************************************************************)
(* Canonical headers.  The library writes one code length per symbol,      *)
(* EOF_CHAR included; the stand-alone program writes 256 code lengths and  *)
(* then the bytes of totalCount.                                           *)
(***************************************************************************)
CWriteHeaderLengthsOnly(cl, v, total) == [i \in 1..256 |-> cl[i - 1].codeLen]

CWriteHeader(cl, v, total) ==
    [i \in 1..NUM_CHARS(v) |-> cl[i - 1].codeLen]
    \o (IF v = "csa" THEN CountBytes(total) ELSE << >>)

\* fgetc at byte offset pos (from 0) of f: EOF is -1
fgetc(f, pos) == IF pos < Len(f) THEN f[pos + 1] ELSE -1

CReadHeaderOffByOne(cl, f) ==
    [cl     |-> Array([i \in 0..256 |->
                          IF i + 1 < Len(f)
                          THEN [value |-> i, codeLen |-> f[i + 2], code |-> cl[i].code]
                          ELSE cl[i]]),
     status |-> Len(f) >= 257,
     pos    |-> IF Len(f) >= 257 THEN 257 ELSE Len(f),
     total  |-> CZero]

\* library ReadHeader: fails at the first missing byte
CReadHeader(cl, f) ==
    [cl     |-> Array([i \in 0..256 |->
                          IF i < Len(f)
                          THEN [value |-> i, codeLen |-> f[i + 1], code |-> cl[i].code]
                          ELSE cl[i]]),
     status |-> Len(f) >= 257,
     pos    |-> IF Len(f) >= 257 THEN 257 ELSE Len(f),
     total  |-> CZero]

SAReadHeaderNoCount(f, junk) ==
    [cl     |-> Array([i \in 0..255 |->
                          IF i < Len(f)
                          THEN [value |-> i, codeLen |-> f[i + 1], code |-> ClearAll256]
                          ELSE [value |-> junk, codeLen |-> junk, code |-> ClearAll256]]),
     status |-> TRUE,
     pos    |-> IF Len(f) >= 260 THEN 260 ELSE Len(f),
     total  |-> COUNT_T_MAX]

\* stand-alone ReadHeader: an entry whose byte is missing keeps what the
\* allocation left in it (junk); a missing count byte is stored as
\* (unsigned char)EOF
SAReadHeader(f, junk) ==
    [cl     |-> Array([i \in 0..255 |->
                          IF i < Len(f)
                          THEN [value |-> i, codeLen |-> f[i + 1], code |-> ClearAll256]
                          ELSE [value |-> junk, codeLen |-> junk, code |-> ClearAll256]]),
     status |-> TRUE,
     pos    |-> IF Len(f) >= 260 THEN 260 ELSE Len(f),
     total  |-> BytesCount([k \in 1..4 |-> (fgetc(f, 255 + k) + 256) % 256])]

\* the index of the first entry of each code length, NUM_CHARS when there
\* is none.  The stand-alone program initialises and reads 0..255 only
FirstOfLength(cl, n, len) ==
    LET S == {i \in 0..(n - 1) : cl[i].codeLen = len}
    IN  IF S = {} THEN n ELSE CHOOSE i \in S : \A j \in S : i <= j

MakeLenIndex(cl, n, v) ==
    LET lens == {cl[i].codeLen : i \in 0..(n - 1)}
    IN  Array([len \in 0..(IF v = "csa" THEN 255 ELSE 256) |->
                  IF len \in lens THEN FirstOfLength(cl, n, len) ELSE n])

\* the search of the window of codes of one length: the index of the
\* matching entry, NONE when there is none, WILD when a code that was
\* never allocated is compared
RECURSIVE MatchLoop(_, _, _, _, _)
MatchLoop(cl, n, c, len, i) ==
    IF ~(i < n /\ cl[i].codeLen = len) THEN NONE
    ELSE IF DOMAIN cl[i].code = {} THEN WILD
    ELSE IF BitArrayCompare(cl[i].code, c) = 0 THEN i
    ELSE MatchLoop(cl, n, c, len, i + 1)

(***************************************************************************)
(* The traditional decoder's step from a node along one bit.               *)
(***************************************************************************)
TreeStepSwapped(h, node, bit) == IF bit # 0 THEN h[node].left ELSE h[node].right

TreeStep(h, node, bit) == IF bit # 0 THEN h[node].right ELSE h[node].left

\* the table of leaves: count and ignore flag of every symbol
LeafTable(h, ht, n) ==
    Array([c \in 0..(n - 1) |->
              [count |-> h[ht[c]].count, ignore |-> h[ht[c]].ignore]])

(***************************************************************************)
(* State.                                                                  *)
(***************************************************************************)
VARIABLES
    variant,        \* which program runs
    pc,             \* where the run is
    input,          \* the file given to the encoder
    heap,           \* allocated huffman_node_t
    huffmanArray,   \* array of leaves / roots of partial trees
    huffmanTree,    \* root of the tree
    codeList,       \* traditional code list
    canonicalList,  \* canonical code list
    totalCount,     \* stand-alone canonical: number of encoded symbols
    file,           \* the encoded file
    rdPos,          \* decoder: bits of `file` consumed
    currentNode,    \* traditional decoder: position in the tree
    code,           \* canonical decoder: bits read so far
    length,         \* canonical decoder: number of bits read so far
    lenIndex,       \* canonical decoder: first entry of each length
    decodedEOF,     \* library canonical decoder: EOF_CHAR was decoded
    output,         \* the file written by the decoder
    status,         \* "running", or the value returned: "TRUE" / "FALSE"
    encLeaves,      \* history: the encoder's leaf table after counting
    encTree,        \* history: the encoder's tree
    truncated,      \* history: the encoded file was cut short
    encCodes,       \* history: the encoder's canonical list
    inPos,          \* encoder: bytes of `input` counted so far
    freed,          \* library: the nodes passed to free(), in order
    streams,        \* library: the streams that are open
    tail,           \* history: bytes appended to the encoded file
    otherRan,       \* a second run has used the process-wide variables
    min1,           \* BuildHuffmanTree: index of the lowest count
    min2,           \* BuildHuffmanTree: index of the second lowest count
    merges,         \* history: composite nodes BuildHuffmanTree allocated
    shiftBits,      \* bitop256: the array given to a shift
    shiftCount,     \* bitop256: the number of positions
    shiftResult,    \* bitop256: the array after the shift
    shiftTouched,   \* bitop256: the indices of the array the shift used
    bitSeq,         \* EncodeFile: the code bits to write
    bitPos,         \* EncodeFile: bits of bitSeq shifted in so far
    bitBuffer,      \* EncodeFile: the char the bits are shifted into
    bitCount,       \* EncodeFile: bits in bitBuffer
    bitsBuffered,   \* GetBit: bits left in `buffer`
    buffer,         \* GetBit: the byte read last, shifted
    bitsRead        \* history: the bits GetBit returned

vars == <<variant, pc, input, heap, huffmanArray, huffmanTree, codeList,
          canonicalList, totalCount, file, rdPos, currentNode, code, length,
          lenIndex, decodedEOF, output, status, encLeaves, encTree, truncated,
          encCodes, inPos, freed, streams, tail, otherRan, min1, min2, merges,
          shiftBits, shiftCount, shiftResult, shiftTouched,
          bitSeq, bitPos, bitBuffer, bitCount, bitsBuffered, buffer, bitsRead>>

\* the variables of the specifications of single functions, and their values
\* in a run of a whole program
buildVars == <<min1, min2, merges>>

shiftVars == <<shiftBits, shiftCount, shiftResult, shiftTouched>>

bitVars == <<bitSeq, bitPos, bitBuffer, bitCount, bitsBuffered, buffer, bitsRead>>

fnVars == <<buildVars, shiftVars, bitVars>>

BuildIdle ==
    /\ min1 = NONE
    /\ min2 = NONE
    /\ merges = 0

ShiftIdle ==
    /\ shiftBits = ClearAll256
    /\ shiftCount = 0
    /\ shiftResult = ClearAll256
    /\ shiftTouched = {}

BitIdle ==
    /\ bitSeq = << >>
    /\ bitPos = 0
    /\ bitBuffer = 0
    /\ bitCount = 0
    /\ bitsBuffered = 0
    /\ buffer = 0
    /\ bitsRead = << >>

FnIdle ==
    /\ BuildIdle
    /\ ShiftIdle
    /\ BitIdle

RECURSIVE SeqsUpTo(_, _)
SeqsUpTo(S, n) ==
    IF n = 0 THEN {<< >>}
    ELSE LET shorter == SeqsUpTo(S, n - 1)
         IN  shorter \cup {Append(q, x) : q \in {r \in shorter : Len(r) = n - 1},
                                          x \in S}

InitRunOn(vs, inputs) ==
    /\ variant \in vs
    /\ input \in inputs
    /\ pc = "enc_start"
    /\ heap = << >>
    /\ huffmanArray = << >>
    /\ huffmanTree = NULL
    /\ codeList = EmptyCodeList
    /\ canonicalList = << >>
    /\ totalCount = CZero
    /\ file = << >>
    /\ rdPos = 0
    /\ currentNode = NULL
    /\ code = ClearAll256
    /\ length = 0
    /\ lenIndex = << >>
    /\ decodedEOF = FALSE
    /\ output = << >>
    /\ status = "running"
    /\ encLeaves = << >>
    /\ encTree = << >>
    /\ truncated = FALSE
    /\ encCodes = << >>
    /\ inPos = 0
    /\ freed = << >>
    /\ streams = {}
    /\ tail = 0
    /\ otherRan = FALSE
    /\ FnIdle

InitRun(vs, maxLen) == InitRunOn(vs, SeqsUpTo(ByteAlphabet, maxLen))

Init == InitRun(Variants, MaxLen)

Canonical == variant \in {"clib", "csa"}

(***************************************************************************)
(* Encoder.                                                                *)
(***************************************************************************)
\* GenerateTreeFromFile; a NULL tree ends the library encoders with FALSE,
\* the stand-alone program exits with EXIT_FAILURE
EncGenerateTree ==
    /\ pc = "enc_start"
    /\ LET n == NUM_CHARS(variant)
           g == IF variant = "csa"
                THEN CGenerateTreeFromFile(input, totalCount)
                ELSE GenerateTreeFromFile(input)
       IN  /\ heap' = g.heap
           /\ huffmanArray' = g.ht
           /\ huffmanTree' = g.root
           /\ totalCount' = IF variant = "csa" THEN g.total ELSE totalCount
           /\ encLeaves' = LeafTable(g.counted, LeafArray(n), n)
           /\ encTree' = IF g.root > NULL THEN TreeOf(g.heap, g.root) ELSE << >>
           /\ pc' = IF g.ok THEN "enc_tree" ELSE "done"
           /\ status' = IF g.ok THEN status ELSE "FALSE"
    /\ streams' = IF variant = "csa" THEN streams
                  ELSE IF variant = "clib" /\ pc' = "done" THEN {}
                  ELSE {"in", "out"}
    /\ UNCHANGED <<fnVars, variant, encCodes, inPos, freed, tail, otherRan, input, codeList, canonicalList, file, rdPos,
                   currentNode, code, length, lenIndex, decodedEOF, output,
                   truncated>>

\* MakeCodeList / BuildCanonicalCode.  When BuildHuffmanTree returned
\* ht[NONE] the walk starts from a pointer read outside huffmanArray: the
\* program faults, or the walk strays through memory that leaves the list
\* as initialised
EncMakeCodes ==
    /\ pc = "enc_tree"
    /\ IF huffmanTree = WILD
       THEN \E outcome \in {"fault", "stray"} :
                IF outcome = "fault"
                THEN /\ pc' = "crashed"
                     /\ UNCHANGED <<codeList, canonicalList>>
                ELSE /\ pc' = "enc_codes"
                     /\ canonicalList' = InitCanonicalList(NUM_CHARS(variant))
                     /\ UNCHANGED codeList
       ELSE /\ pc' = "enc_codes"
            /\ IF variant = "trad"
               THEN /\ codeList' = MakeCodeList(heap, huffmanTree, EmptyCodeList)
                    /\ UNCHANGED canonicalList
               ELSE /\ canonicalList' =
                          BuildCanonicalCode(heap, huffmanTree, NUM_CHARS(variant))
                    /\ UNCHANGED codeList
    /\ encCodes' = IF pc' = "enc_codes" THEN canonicalList' ELSE encCodes
    /\ UNCHANGED <<fnVars, variant, inPos, freed, streams, tail, otherRan, input, heap, huffmanArray, huffmanTree, totalCount,
                   file, rdPos, currentNode, code, length, lenIndex, decodedEOF,
                   output, status, encLeaves, encTree, truncated>>

EncWriteHeader ==
    /\ pc = "enc_codes"
    /\ file' = IF variant = "trad"
               THEN WriteHeader(heap, huffmanTree)
               ELSE CWriteHeader(canonicalList, variant, totalCount)
    /\ pc' = "enc_header"
    /\ UNCHANGED <<fnVars, variant, encCodes, inPos, freed, streams, tail, otherRan, input, heap, huffmanArray, huffmanTree, codeList,
                   canonicalList, totalCount, rdPos, currentNode, code, length,
                   lenIndex, decodedEOF, output, status, encLeaves, encTree,
                   truncated>>

\* the encode loop, the EOF code (library) and the closing of the files
EncWriteBody ==
    /\ pc = "enc_header"
    /\ LET bits == IF variant = "trad" THEN HuffmanEncodeBits(codeList, input)
                   ELSE IF variant = "clib"
                        THEN HuffmanEncodeBits(canonicalList, input)
                        ELSE EncodeLoop(canonicalList, input, 1)
       IN  file' = file \o PackBits(bits)
    /\ pc' = "encoded"
    /\ status' = "TRUE"
    /\ streams' = {}
    /\ freed' = IF variant = "trad" THEN FreeHuffmanTree(heap, huffmanTree)
                ELSE freed
    /\ UNCHANGED <<fnVars, variant, encCodes, inPos, tail, otherRan, input, heap, huffmanArray, huffmanTree, codeList,
                   canonicalList, totalCount, rdPos, currentNode, code, length,
                   lenIndex, decodedEOF, output, encLeaves, encTree, truncated>>

(***************************************************************************)
(* The encoded file reaches the decoder whole (Spec) or cut short          *)
(* (SpecTrunc).                                                            *)
(***************************************************************************)
TruncateFile ==
    /\ pc = "encoded"
    /\ ~truncated
    /\ \E k \in 0..(Len(file) - 1) : file' = SubSeq(file, 1, k)
    /\ truncated' = TRUE
    /\ UNCHANGED <<fnVars, variant, encCodes, inPos, freed, streams, tail, otherRan, pc, input, heap, huffmanArray, huffmanTree,
                   codeList, canonicalList, totalCount, rdPos, currentNode,
                   code, length, lenIndex, decodedEOF, output, status,
                   encLeaves, encTree>>

(***************************************************************************)
(* Decoder: a new process.                                                 *)
(***************************************************************************)
\* the start of HuffmanDecodeFile / CHuffmanDecodeFile / DecodeFile up to
\* the call of ReadHeader
DecStart ==
    /\ pc = "encoded"
    /\ pc' = "dec_start"
    /\ status' = "running"
    /\ totalCount' = CZero
    /\ huffmanTree' = NULL
    /\ IF variant = "trad"
       THEN /\ heap' = AllocLeaves(257)
            /\ huffmanArray' = LeafArray(257)
            /\ UNCHANGED canonicalList
       ELSE /\ heap' = << >>
            /\ huffmanArray' = << >>
            /\ canonicalList' =
                   IF variant = "clib"
                   THEN Array([i \in 0..256 |->
                                 [value |-> 0, codeLen |-> 0, code |-> NoCode]])
                   ELSE << >>
    /\ streams' = IF variant = "csa" THEN streams ELSE {"in", "out"}
    /\ freed' = << >>
    /\ UNCHANGED <<fnVars, variant, encCodes, inPos, tail, otherRan, input, codeList, file, rdPos, currentNode, code,
                   length, lenIndex, decodedEOF, output, encLeaves, encTree,
                   truncated>>

DecReadHeader ==
    /\ pc = "dec_start"
    /\ \E junk \in GarbageBytes :
         LET r == IF variant = "trad"
                  THEN ReadHeader(heap, huffmanArray, file, <<junk, junk, junk, junk>>)
                  ELSE IF variant = "clib" THEN CReadHeader(canonicalList, file)
                  ELSE SAReadHeader(file, junk)
         IN  /\ IF variant = "trad"
                THEN heap' = r.heap /\ UNCHANGED <<canonicalList, totalCount>>
                ELSE /\ canonicalList' = r.cl
                     /\ totalCount' = r.total
                     /\ UNCHANGED heap
             /\ rdPos' = 8 * r.pos
             /\ pc' = IF r.status THEN "dec_header" ELSE "done"
             /\ status' = IF r.status THEN status ELSE "FALSE"
    /\ streams' = IF pc' = "done" THEN {} ELSE streams
    /\ freed' = IF variant = "trad" /\ pc' = "done"
                THEN [i \in 1..NUM_CHARS(variant) |-> huffmanArray[i - 1]]
                ELSE freed
    /\ UNCHANGED <<fnVars, variant, encCodes, inPos, tail, otherRan, input, huffmanArray, huffmanTree, codeList, file,
                   currentNode, code, length, lenIndex, decodedEOF, output,
                   encLeaves, encTree, truncated>>

\* traditional: BuildHuffmanTree; canonical: qsort, AssignCanonicalCodes and
\* the index of first codes
DecBuild ==
    /\ pc = "dec_header"
    /\ IF variant = "trad"
       THEN LET b == BuildHuffmanTree(heap, huffmanArray, 257)
            IN  /\ heap' = b.heap
                /\ huffmanArray' = b.ht
                /\ huffmanTree' = b.root
                /\ currentNode' = b.root
                /\ pc' = IF b.root = NULL THEN "done" ELSE "decoding"
                /\ status' = IF b.root = NULL THEN "FALSE" ELSE status
                /\ UNCHANGED <<canonicalList, lenIndex, code, length, decodedEOF>>
       ELSE LET n  == NUM_CHARS(variant)
                cl == AssignCanonicalCodes(
                          qsort(canonicalList, n, "CompareByCodeLen"), n)
            IN  /\ canonicalList' = cl
                /\ lenIndex' = MakeLenIndex(cl, n, variant)
                /\ length' = 0
                /\ code' = ClearAll256
                /\ decodedEOF' = FALSE
                /\ pc' = "decoding"
                /\ UNCHANGED <<heap, huffmanArray, huffmanTree, currentNode, status>>
    /\ streams' = IF pc' = "done" THEN {} ELSE streams
    /\ UNCHANGED <<fnVars, variant, encCodes, inPos, freed, tail, otherRan, input, codeList, totalCount, file, rdPos, output,
                   encLeaves, encTree, truncated>>

\* one iteration of the decode loop of HuffmanDecodeFile
HuffmanDecodeBit ==
    /\ pc = "decoding"
    /\ variant = "trad"
    /\ rdPos < 8 * Len(file)
    /\ rdPos' = rdPos + 1
    /\ LET next == TreeStep(heap, currentNode, BitAt(file, rdPos))
       IN  IF next = NULL
           THEN /\ pc' = "crashed"
                /\ currentNode' = next
                /\ UNCHANGED <<output, status>>
           ELSE IF heap[next].value # COMPOSITE_NODE
                THEN IF heap[next].value = EOF_CHAR
                     THEN /\ currentNode' = next
                          /\ pc' = "done"
                          /\ status' = "TRUE"
                          /\ UNCHANGED output
                     ELSE /\ output' = Append(output, heap[next].value)
                          /\ currentNode' = huffmanTree
                          /\ UNCHANGED <<pc, status>>
                ELSE /\ currentNode' = next
                     /\ UNCHANGED <<pc, output, status>>
    /\ streams' = IF pc' = "done" THEN {} ELSE streams
    /\ freed' = IF pc' = "done" THEN FreeHuffmanTree(heap, huffmanTree) ELSE freed
    /\ UNCHANGED <<fnVars, variant, encCodes, inPos, tail, otherRan, input, heap, huffmanArray, huffmanTree, codeList,
                   canonicalList, totalCount, file, code, length, lenIndex,
                   decodedEOF, encLeaves, encTree, truncated>>

\* one iteration of the decode loop of CHuffmanDecodeFile / DecodeFile
CHuffmanDecodeBit ==
    /\ pc = "decoding"
    /\ Canonical
    /\ rdPos < 8 * Len(file)
    /\ ~decodedEOF
    /\ rdPos' = rdPos + 1
    /\ LET n       == NUM_CHARS(variant)
           code1   == IF BitAt(file, rdPos) # 0 THEN SetBit256(code, length) ELSE code
           length1 == (length + 1) % 256
           i       == IF lenIndex[length1] # n
                      THEN MatchLoop(canonicalList, n, code1, length1,
                                     lenIndex[length1])
                      ELSE NONE
       IN  IF i = WILD
           THEN /\ pc' = "crashed"
                /\ code' = code1
                /\ length' = length1
                /\ UNCHANGED <<output, totalCount, decodedEOF>>
           ELSE IF i = NONE
           THEN /\ code' = code1
                /\ length' = length1
                /\ UNCHANGED <<pc, output, totalCount, decodedEOF>>
           ELSE /\ code' = ClearAll256
                /\ length' = 0
                /\ pc' = pc
                /\ IF variant = "clib"
                   THEN /\ IF canonicalList[i].value # EOF_CHAR
                           THEN /\ output' = Append(output, canonicalList[i].value)
                                /\ UNCHANGED decodedEOF
                           ELSE /\ decodedEOF' = TRUE
                                /\ UNCHANGED output
                        /\ UNCHANGED totalCount
                   ELSE /\ IF totalCount # CZero
                           THEN /\ output' = Append(output, canonicalList[i].value)
                                /\ totalCount' = CDec(totalCount)
                           ELSE UNCHANGED <<output, totalCount>>
                        /\ UNCHANGED decodedEOF
    /\ UNCHANGED <<fnVars, variant, encCodes, inPos, freed, streams, tail, otherRan, input, heap, huffmanArray, huffmanTree, codeList,
                   canonicalList, file, currentNode, lenIndex, status,
                   encLeaves, encTree, truncated>>

\* the decode loop ends: no bit is left, or (library canonical decoder)
\* EOF_CHAR was decoded and one more bit was fetched
DecodeFinish ==
    /\ pc = "decoding"
    /\ \/ rdPos >= 8 * Len(file)
       \/ variant = "clib" /\ decodedEOF
    /\ rdPos' = IF rdPos < 8 * Len(file) THEN rdPos + 1 ELSE rdPos
    /\ pc' = "done"
    /\ status' = "TRUE"
    /\ streams' = {}
    /\ freed' = IF variant = "trad" THEN FreeHuffmanTree(heap, huffmanTree)
                ELSE freed
    /\ UNCHANGED <<fnVars, variant, encCodes, inPos, tail, otherRan, input, heap, huffmanArray, huffmanTree, codeList,
                   canonicalList, totalCount, file, currentNode, code, length,
                   lenIndex, decodedEOF, output, encLeaves, encTree, truncated>>

Next ==
    \/ EncGenerateTree
    \/ EncMakeCodes
    \/ EncWriteHeader
    \/ EncWriteBody
    \/ DecStart
    \/ DecReadHeader
    \/ DecBuild
    \/ HuffmanDecodeBit
    \/ CHuffmanDecodeBit
    \/ DecodeFinish

Spec == Init /\ [][Next]_vars

\* the traditional coder with the encoded file possibly cut short before
\* it is decoded
InitTrunc == InitRun({"trad"}, MaxLenTrunc)

NextTrunc ==
    \/ EncGenerateTree
    \/ EncMakeCodes
    \/ EncWriteHeader
    \/ EncWriteBody
    \/ TruncateFile
    \/ DecStart
    \/ DecReadHeader
    \/ DecBuild
    \/ HuffmanDecodeBit
    \/ DecodeFinish

SpecTrunc == InitTrunc /\ [][NextTrunc]_vars

(***************************************************************************)
(* The counting loop of GenerateTreeFromFile, one byte at a time, entered  *)
(* after a run of bytes 0x00 has been counted: `input` is the rest of the  *)
(* file (SpecCount).                                                       *)
(***************************************************************************)
CountStarts == {CZero, <<65535, 65533>>, <<65535, 65534>>, COUNT_T_MAX}

\* the leaves after runs of the bytes `bytes` were counted: starts[j] of
\* bytes[j]
RECURSIVE CountedRuns(_, _, _, _)
CountedRuns(h, bytes, starts, j) ==
    IF j > Len(bytes) THEN h
    ELSE CountedRuns(IF starts[j] = CZero THEN h
                     ELSE [h EXCEPT ![bytes[j] + 1] =
                              [@ EXCEPT !.count = starts[j], !.ignore = FALSE]],
                     bytes, starts, j + 1)

RECURSIVE CountedTotal(_, _)
CountedTotal(starts, j) ==
    IF j = 0 THEN CZero ELSE CAdd(CountedTotal(starts, j - 1), starts[j])

InitCounting(vs, bytes, countSet, maxLen) ==
    /\ variant \in vs
    /\ input \in SeqsUpTo(ByteAlphabet, maxLen)
    /\ pc = "counting"
    /\ huffmanArray = LeafArray(NUM_CHARS(variant))
    /\ \E starts \in [1..Len(bytes) -> countSet] :
           LET h1 == CountedRuns(AllocLeaves(NUM_CHARS(variant)), bytes, starts, 1)
           IN  /\ heap = IF variant = "csa" THEN h1
                         ELSE [h1 EXCEPT ![EOF_CHAR + 1] =
                                  [@ EXCEPT !.count = COne, !.ignore = FALSE]]
               /\ totalCount = IF variant = "csa"
                                THEN CountedTotal(starts, Len(bytes)) ELSE CZero
    /\ streams = IF variant = "csa" THEN {} ELSE {"in", "out"}
    /\ huffmanTree = NULL
    /\ codeList = EmptyCodeList
    /\ canonicalList = << >>
    /\ file = << >>
    /\ rdPos = 0
    /\ currentNode = NULL
    /\ code = ClearAll256
    /\ length = 0
    /\ lenIndex = << >>
    /\ decodedEOF = FALSE
    /\ output = << >>
    /\ status = "running"
    /\ encLeaves = << >>
    /\ encTree = << >>
    /\ truncated = FALSE
    /\ encCodes = << >>
    /\ inPos = 0
    /\ freed = << >>
    /\ tail = 0
    /\ otherRan = FALSE
    /\ FnIdle

InitCount == InitCounting(Variants, <<0>>, CountStarts, MaxLenCount)

\* one byte is read and counted; when it cannot be counted the library
\* GenerateTreeFromFile returns NULL (HuffmanEncodeFile returns FALSE as it
\* is, CHuffmanEncodeFile closes its streams first) and the stand-alone
\* program exits
CountByte ==
    /\ pc = "counting"
    /\ inPos < Len(input)
    /\ inPos' = inPos + 1
    /\ LET c == input[inPos + 1]
           r == IF variant = "csa"
                THEN CCountStep(heap, huffmanArray, c, totalCount)
                ELSE CountStep(heap, huffmanArray, c) @@ [total |-> totalCount]
       IN  /\ heap' = r.heap
           /\ totalCount' = r.total
           /\ pc' = IF r.ok THEN pc ELSE "done"
           /\ status' = IF r.ok THEN status ELSE "FALSE"
           /\ streams' = IF ~r.ok /\ variant = "clib" THEN {} ELSE streams
    /\ UNCHANGED <<fnVars, variant, encCodes, freed, tail, otherRan, input, huffmanArray,
                   huffmanTree, codeList, canonicalList, file, rdPos,
                   currentNode, code, length, lenIndex, decodedEOF, output,
                   encLeaves, encTree, truncated>>

\* the end of the file is read: BuildHuffmanTree
CountFinish ==
    /\ pc = "counting"
    /\ inPos = Len(input)
    /\ LET n == NUM_CHARS(variant)
           b == BuildHuffmanTree(heap, huffmanArray, n)
       IN  /\ heap' = b.heap
           /\ huffmanArray' = b.ht
           /\ huffmanTree' = b.root
           /\ encLeaves' = LeafTable(heap, LeafArray(n), n)
           /\ encTree' = IF b.root > NULL THEN TreeOf(b.heap, b.root) ELSE << >>
    /\ pc' = "enc_tree"
    /\ UNCHANGED <<fnVars, variant, encCodes, inPos, freed, streams, tail, otherRan,
                   input, codeList, canonicalList, totalCount, file, rdPos,
                   currentNode, code, length, lenIndex, decodedEOF, output,
                   status, truncated>>

NextCount ==
    \/ CountByte
    \/ CountFinish

SpecCount == InitCount /\ [][NextCount]_vars

(***************************************************************************)
(* BuildHuffmanTree on an array of BuildElements leaves, one search of     *)
(* FindMinimumCount at a time (SpecBuild).  A leaf that is not active has  *)
(* the count 0 AllocHuffmanNode gave it; the counts of the active leaves   *)
(* are 1, 2, 2^30, INT_MAX, 2^31 and COUNT_T_MAX.                          *)
(***************************************************************************)
BuildCounts ==
    {CZero, COne, <<0, 2>>, <<16384, 0>>, INT_MAX_AS_UNSIGNED, <<32768, 0>>,
     COUNT_T_MAX}

\* the variables of a run of a whole program that a specification of a part
\* of it leaves at their first values
NoEncoderRun ==
    /\ input = << >>
    /\ encLeaves = << >>
    /\ encTree = << >>
    /\ encCodes = << >>
    /\ inPos = 0
    /\ truncated = FALSE
    /\ tail = 0
    /\ otherRan = FALSE
    /\ freed = << >>
    /\ streams = {}
    /\ status = "running"

NoDecoderRun ==
    /\ rdPos = 0
    /\ currentNode = NULL
    /\ code = ClearAll256
    /\ length = 0
    /\ lenIndex = << >>
    /\ decodedEOF = FALSE
    /\ output = << >>

InitBuild ==
    /\ variant \in {"trad", "csa"}
    /\ pc = "build_min1"
    /\ \E counts \in [0..(BuildElements - 1) -> BuildCounts] :
           heap = [i \in 1..BuildElements |->
                      [AllocHuffmanNode(i - 1) EXCEPT
                           !.count = counts[i - 1],
                           !.ignore = (counts[i - 1] = CZero)]]
    /\ huffmanArray = LeafArray(BuildElements)
    /\ huffmanTree = NULL
    /\ codeList = EmptyCodeList
    /\ canonicalList = << >>
    /\ totalCount = CZero
    /\ file = << >>
    /\ NoEncoderRun
    /\ NoDecoderRun
    /\ FnIdle

\* the first search of an iteration; `break` when nothing is found, and then
\* `return ht[min1]` reads ht[NONE]
BuildFindMin1 ==
    /\ pc = "build_min1"
    /\ min1' = FindMinimumCount(heap, huffmanArray, BuildElements)
    /\ IF min1' = NONE
       THEN /\ pc' = "build_done"
            /\ huffmanTree' = WILD
            /\ UNCHANGED heap
       ELSE /\ pc' = "build_min2"
            /\ heap' = [heap EXCEPT ![huffmanArray[min1']] =
                            [@ EXCEPT !.ignore = TRUE]]
            /\ UNCHANGED huffmanTree
    /\ UNCHANGED <<variant, input, huffmanArray, codeList, canonicalList,
                   totalCount, file, rdPos, currentNode, code, length, lenIndex,
                   decodedEOF, output, status, encLeaves, encTree, truncated,
                   encCodes, inPos, freed, streams, tail, otherRan, min2, merges,
                   shiftVars, bitVars>>

\* the second search, and the composite node of the two nodes found
BuildFindMin2 ==
    /\ pc = "build_min2"
    /\ min2' = FindMinimumCount(heap, huffmanArray, BuildElements)
    /\ IF min2' = NONE
       THEN /\ pc' = "build_done"
            /\ huffmanTree' = huffmanArray[min1]
            /\ UNCHANGED <<heap, huffmanArray, merges>>
       ELSE LET h2 == [heap EXCEPT ![huffmanArray[min2']] =
                          [@ EXCEPT !.ignore = TRUE]]
                h3 == AllocHuffmanCompositeNode(h2, huffmanArray[min1],
                                                huffmanArray[min2'])
            IN  /\ heap' = h3
                /\ huffmanArray' = [huffmanArray EXCEPT ![min1] = Len(h3),
                                                        ![min2'] = NULL]
                /\ merges' = merges + 1
                /\ pc' = "build_min1"
                /\ UNCHANGED huffmanTree
    /\ UNCHANGED <<variant, input, codeList, canonicalList, totalCount, file,
                   rdPos, currentNode, code, length, lenIndex, decodedEOF,
                   output, status, encLeaves, encTree, truncated, encCodes,
                   inPos, freed, streams, tail, otherRan, min1, shiftVars,
                   bitVars>>

NextBuild ==
    \/ BuildFindMin1
    \/ BuildFindMin2

SpecBuild == InitBuild /\ [][NextBuild]_vars

(***************************************************************************)
(* LeftShift256 and RightShift256 applied to an array (SpecShift).         *)
(***************************************************************************)
ShiftArrays ==
    {ClearAll256,
     Array([i \in 0..LAST_BYTE |-> 255]),
     Array([i \in 0..LAST_BYTE |-> IF i = 0 THEN 128 ELSE 0]),
     Array([i \in 0..LAST_BYTE |-> IF i = LAST_BYTE THEN 1 ELSE 0]),
     Array([i \in 0..LAST_BYTE |-> (37 * i + 165) % 256])}

ShiftCounts == {0, 1, 7, 8, 9, 16, 100, 248, 255, 256, 257, 263, 264, MaxShift}

InitShift ==
    /\ variant = "csa"
    /\ pc = "shift"
    /\ shiftBits \in ShiftArrays
    /\ shiftCount \in ShiftCounts
    /\ shiftResult = shiftBits
    /\ shiftTouched = {}
    /\ heap = << >>
    /\ huffmanArray = << >>
    /\ huffmanTree = NULL
    /\ codeList = EmptyCodeList
    /\ canonicalList = << >>
    /\ totalCount = CZero
    /\ file = << >>
    /\ NoEncoderRun
    /\ NoDecoderRun
    /\ BuildIdle
    /\ BitIdle

ShiftUnchanged ==
    UNCHANGED <<variant, input, heap, huffmanArray, huffmanTree, codeList,
                canonicalList, totalCount, file, rdPos, currentNode, code,
                length, lenIndex, decodedEOF, output, status, encLeaves,
                encTree, truncated, encCodes, inPos, freed, streams, tail,
                otherRan, buildVars, bitVars, shiftBits, shiftCount>>

ShiftLeft ==
    /\ pc = "shift"
    /\ pc' = "shifted_left"
    /\ shiftResult' = LeftShift256(shiftBits, shiftCount)
    /\ shiftTouched' = LeftShift256Indices(shiftCount)
    /\ ShiftUnchanged

ShiftRight ==
    /\ pc = "shift"
    /\ pc' = "shifted_right"
    /\ shiftResult' = RightShift256(shiftBits, shiftCount)
    /\ shiftTouched' = RightShift256Indices(shiftCount)
    /\ ShiftUnchanged

NextShift ==
    \/ ShiftLeft
    \/ ShiftRight

SpecShift == InitShift /\ [][NextShift]_vars

(***************************************************************************)
(* The bit buffer of the stand-alone EncodeFile and GetBit, one bit at a   *)
(* time (SpecBits): the bits of bitSeq are written to `file`, the file is  *)
(* closed, and GetBit is called until it returns EOF.  A char is kept as   *)
(* the value of its 8 bits.                                                *)
(***************************************************************************)
\* the new bit shifted in at the high end
ShiftInBitHigh(b, bit) == (b \div 2) + 128 * bit

\* bitBuffer = (bitBuffer << 1) | bit
ShiftInBit(b, bit) == (2 * b + bit) % 256

InitBits ==
    /\ variant = "csa"
    /\ pc = "bit_write"
    /\ bitSeq \in SeqsUpTo({0, 1}, MaxBits)
    /\ bitPos = 0
    /\ bitBuffer = 0
    /\ bitCount = 0
    /\ bitsBuffered = 0
    /\ buffer = 0
    /\ bitsRead = << >>
    /\ heap = << >>
    /\ huffmanArray = << >>
    /\ huffmanTree = NULL
    /\ codeList = EmptyCodeList
    /\ canonicalList = << >>
    /\ totalCount = CZero
    /\ file = << >>
    /\ NoEncoderRun
    /\ NoDecoderRun
    /\ BuildIdle
    /\ ShiftIdle

BitsUnchanged ==
    UNCHANGED <<variant, input, heap, huffmanArray, huffmanTree, codeList,
                canonicalList, totalCount, currentNode, code, length, lenIndex,
                decodedEOF, output, status, encLeaves, encTree, truncated,
                encCodes, inPos, freed, streams, tail, otherRan, buildVars,
                shiftVars, bitSeq>>

\* one iteration of the loop that shifts in the bits of a code
PutBit ==
    /\ pc = "bit_write"
    /\ bitPos < Len(bitSeq)
    /\ bitPos' = bitPos + 1
    /\ bitBuffer' = ShiftInBit(bitBuffer, bitSeq[bitPos + 1])
    /\ IF bitCount + 1 = 8
       THEN /\ file' = Append(file, bitBuffer')
            /\ bitCount' = 0
       ELSE /\ bitCount' = bitCount + 1
            /\ UNCHANGED file
    /\ UNCHANGED <<pc, rdPos, bitsBuffered, buffer, bitsRead>>
    /\ BitsUnchanged

\* "now handle spare bits", and the files are closed
PutSpareBits ==
    /\ pc = "bit_write"
    /\ bitPos = Len(bitSeq)
    /\ pc' = "bit_read"
    /\ IF bitCount # 0
       THEN /\ bitBuffer' = (bitBuffer * Pow2(8 - bitCount)) % 256
            /\ file' = Append(file, bitBuffer')
       ELSE UNCHANGED <<bitBuffer, file>>
    /\ UNCHANGED <<bitPos, bitCount, rdPos, bitsBuffered, buffer, bitsRead>>
    /\ BitsUnchanged

\* one call of GetBit
GetBit ==
    /\ pc = "bit_read"
    /\ IF bitsBuffered = 0 /\ rdPos >= 8 * Len(file)
       THEN /\ pc' = "bit_eof"
            /\ UNCHANGED <<rdPos, bitsBuffered, buffer, bitsRead>>
       ELSE LET b == IF bitsBuffered = 0 THEN file[(rdPos \div 8) + 1] ELSE buffer
                n == IF bitsBuffered = 0 THEN 8 ELSE bitsBuffered
            IN  /\ bitsRead' = Append(bitsRead, IF b >= 128 THEN 1 ELSE 0)
                /\ bitsBuffered' = n - 1
                /\ buffer' = (2 * b) % 256
                /\ rdPos' = rdPos + 1
                /\ UNCHANGED pc
    /\ UNCHANGED <<file, bitPos, bitBuffer, bitCount>>
    /\ BitsUnchanged

NextBits ==
    \/ PutBit
    \/ PutSpareBits
    \/ GetBit

SpecBits == InitBits /\ [][NextBits]_vars

(***************************************************************************)
(* The canonical decoders on a header that no encoder need have written    *)
(* (SpecHeader): a table of code lengths of at most MaxHeaderLen for three *)
(* symbols, every other length 0, whose lengths satisfy the Kraft          *)
(* inequality, followed by one byte of code bits.                          *)
(***************************************************************************)
HeaderSymbols(v) == IF v = "clib" THEN {65, 66, EOF_CHAR} ELSE {65, 66, 67}

\* the sum of 2^-len over the entries of lens with a length in 1..len,
\* times 2^MaxHeaderLen
RECURSIVE KraftSum(_, _)
KraftSum(lens, len) ==
    IF len = 0 THEN 0
    ELSE Cardinality({k \in DOMAIN lens : lens[k] = len}) * Pow2(MaxHeaderLen - len)
         + KraftSum(lens, len - 1)

HeaderTables ==
    {t \in [1..3 -> 0..MaxHeaderLen] :
        KraftSum(t, MaxHeaderLen) <= Pow2(MaxHeaderLen)}

HeaderBodies == {<<0>>, <<64>>}

\* the header of the table: lengths t[1], t[2], t[3] for the three symbols
\* in ascending order; the stand-alone header ends with a count of 2
HeaderFile(v, t) ==
    LET syms == HeaderSymbols(v)
        rank(c) == Cardinality({d \in syms : d <= c})
    IN  [i \in 1..NUM_CHARS(v) |-> IF (i - 1) \in syms THEN t[rank(i - 1)] ELSE 0]
        \o (IF v = "csa" THEN CountBytes(<<0, 2>>) ELSE << >>)

InitHeader ==
    /\ variant \in {"clib", "csa"}
    /\ pc = "encoded"
    /\ \E t \in HeaderTables, body \in HeaderBodies :
           file = HeaderFile(variant, t) \o body
    /\ heap = << >>
    /\ huffmanArray = << >>
    /\ huffmanTree = NULL
    /\ codeList = EmptyCodeList
    /\ canonicalList = << >>
    /\ totalCount = CZero
    /\ NoEncoderRun
    /\ NoDecoderRun
    /\ FnIdle

NextHeader ==
    \/ DecStart
    \/ DecReadHeader
    \/ DecBuild
    \/ CHuffmanDecodeBit
    \/ DecodeFinish

SpecHeader == InitHeader /\ [][NextHeader]_vars

(***************************************************************************)
(* Two runs of the library in one process (SpecTwo).  The steps of the run *)
(* of the state are interleaved with those of a second run on OtherInput;  *)
(* the second run acts on the first through the variables of file scope:   *)
(* a traditional decoder that has allocated its leaves and read its header *)
(* has replaced huffmanArray, a canonical encoder that has built its code  *)
(* has replaced canonicalList.                                             *)
(***************************************************************************)
OtherInput == <<0, 0, 65>>

OtherRun ==
    /\ ~otherRan
    /\ pc \notin {"done", "crashed"}
    /\ otherRan' = TRUE
    /\ IF variant = "trad"
       THEN /\ heap' = heap \o GenerateTreeFromFile(OtherInput).counted
            /\ huffmanArray' = Array([c \in 0..256 |-> Len(heap) + c + 1])
            /\ UNCHANGED canonicalList
       ELSE /\ canonicalList' =
                   LET g == GenerateTreeFromFile(OtherInput)
                   IN  BuildCanonicalCode(g.heap, g.root, 257)
            /\ UNCHANGED <<heap, huffmanArray>>
    /\ UNCHANGED <<fnVars, variant, encCodes, inPos, freed, streams, tail, input,
                   huffmanTree, codeList, totalCount, file, rdPos, currentNode,
                   code, length, lenIndex, decodedEOF, output, status, pc,
                   encLeaves, encTree, truncated>>

InitTwo == InitRun({"trad", "clib"}, MaxLenTwo)

NextTwo ==
    \/ EncGenerateTree
    \/ EncMakeCodes
    \/ EncWriteHeader
    \/ EncWriteBody
    \/ DecStart
    \/ DecReadHeader
    \/ DecBuild
    \/ HuffmanDecodeBit
    \/ CHuffmanDecodeBit
    \/ DecodeFinish
    \/ OtherRun

SpecTwo == InitTwo /\ [][NextTwo]_vars

(***************************************************************************)
(* The canonical encoders on files in which up to six, or eight, byte      *)
(* values occur once each, and on files of up to three byte values that    *)
(* occur once or twice (SpecEqual).                                        *)
(***************************************************************************)
EqualBytes == {0, 1, 65, 66, 97, 98, 254, 255}

FewBytes == {0, 65, 255}

\* the file with the bytes of S in ascending order
RECURSIVE BytesOf(_)
BytesOf(S) ==
    IF S = {} THEN << >>
    ELSE LET m == CHOOSE x \in S : \A y \in S : x <= y
         IN  <<m>> \o BytesOf(S \ {m})

EqualInputs ==
    {BytesOf(S) : S \in SUBSET (EqualBytes \ {254, 255})}
        \cup {BytesOf(EqualBytes)}
        \cup UNION {{BytesOf(S) \o BytesOf(T) : T \in SUBSET S} :
                        S \in SUBSET FewBytes}

InitEqual == InitRunOn({"clib", "csa"}, EqualInputs)

NextEqual ==
    \/ EncGenerateTree
    \/ EncMakeCodes
    \/ EncWriteHeader
    \/ EncWriteBody

SpecEqual == InitEqual /\ [][NextEqual]_vars

(***************************************************************************)
(* The traditional encoder on a file of more than 2^31 bytes: the counting *)
(* loop is entered after runs of four byte values were counted, and the    *)
(* code list is made from the tree (SpecLargeFile).                        *)
(***************************************************************************)
LargeBytes == <<0, 65, 66, 255>>

\* 5 * 2^27, 6 * 2^27 and 11 * 2^27
LargeCounts == {<<10240, 0>>, <<12288, 0>>, <<22528, 0>>}

InitLargeFile == InitCounting({"trad"}, LargeBytes, LargeCounts, MaxLenLarge)

NextLargeFile ==
    \/ CountByte
    \/ CountFinish
    \/ EncMakeCodes

SpecLargeFile == InitLargeFile /\ [][NextLargeFile]_vars

(***************************************************************************)
(* The decoder is given a file in which other bytes follow the encoder's   *)
(* output (SpecTail).                                                      *)
(***************************************************************************)
AppendTail ==
    /\ pc = "encoded"
    /\ tail = 0
    /\ \E k \in {1, MaxTail} : \E v \in TailBytes :
           /\ file' = file \o [i \in 1..k |-> v]
           /\ tail' = k
    /\ UNCHANGED <<fnVars, variant, encCodes, inPos, freed, streams, otherRan, pc, input,
                   heap, huffmanArray, huffmanTree, codeList, canonicalList,
                   totalCount, rdPos, currentNode, code, length, lenIndex,
                   decodedEOF, output, status, encLeaves, encTree, truncated>>

InitTail == InitRun(Variants, MaxLenTail)

NextTail ==
    \/ EncGenerateTree
    \/ EncMakeCodes
    \/ EncWriteHeader
    \/ EncWriteBody
    \/ AppendTail
    \/ DecStart
    \/ DecReadHeader
    \/ DecBuild
    \/ HuffmanDecodeBit
    \/ CHuffmanDecodeBit
    \/ DecodeFinish

SpecTail == InitTail /\ [][NextTail]_vars

(***************************************************************************)
(* Properties.                                                             *)
(***************************************************************************)
Range(q) == {q[i] : i \in 1..Len(q)}

\* the entries of the code list in use that have a code
UsedCodes ==
    IF variant = "trad"
    THEN {[value |-> c, codeLen |-> codeList[c].codeLen, code |-> codeList[c].code] :
             c \in {d \in 0..256 : codeList[d].codeLen # 0}}
    ELSE {canonicalList[i] :
             i \in {j \in DOMAIN canonicalList : canonicalList[j].codeLen # 0}}

\* the code list in use holds the codes MakeCodeList / AssignCanonicalCodes
\* gave it
CodesAssigned ==
    IF variant = "trad"
    THEN pc \notin {"enc_start", "enc_tree"}
    ELSE \/ pc \in {"enc_codes", "enc_header", "encoded", "decoding"}
         \/ pc = "done" /\ status = "TRUE"

IsPrefix(a, b) ==
    /\ a.codeLen <= b.codeLen
    /\ \A k \in 0..(a.codeLen - 1) : TestBit256(a.code, k) = TestBit256(b.code, k)

\* the code of an entry as a number: the code right justified
CodeValue(e) == RightShift256(e.code, 256 - e.codeLen)

\* the order (code length ascending, symbol ascending) and its neighbours
Before(a, b) ==
    \/ a.codeLen < b.codeLen
    \/ a.codeLen = b.codeLen /\ a.value < b.value

Adjacent(a, b) ==
    /\ Before(a, b)
    /\ ~\E c \in UsedCodes : Before(a, c) /\ Before(c, b)

SingleSymbolInput ==
    /\ Len(input) >= 1
    /\ \A i \in 1..Len(input) : input[i] = input[1]

\* bytes of the traditional header the encoder wrote: one record for each
\* active byte symbol and the terminator
TradHeaderLen ==
    5 * Cardinality({c \in 0..255 : ~encLeaves[c].ignore}) + 5

CHeaderLen == IF variant = "csa" THEN 260 ELSE 257

\* the node the traditional decoder reaches from `node` along bits k..
RECURSIVE Walk(_, _, _, _)
Walk(h, node, bits, k) ==
    IF k > Len(bits) \/ node = NULL THEN node
    ELSE Walk(h, TreeStep(h, node, bits[k]), bits, k + 1)

CanonicalRoundTrip ==
    Canonical =>
        /\ pc # "crashed"
        /\ pc = "done" => status = "TRUE" /\ output = input

\* C3: once the codes are assigned, no code of a symbol with a non-zero
\* code length is a bit-prefix of the code of another such symbol, in the
\* traditional code list and in the canonical list alike.
PrefixCode ==
    CodesAssigned =>
        \A a \in UsedCodes : \A b \in UsedCodes :
            a.value # b.value => ~IsPrefix(a, b)

PrefixCodeWitness ==
    /\ variant = "clib"
    /\ pc = "enc_codes"
    /\ Cardinality(UsedCodes) >= 3
    /\ \E a \in UsedCodes : \E b \in UsedCodes : a.codeLen < b.codeLen

\* C4 as stated: with the used entries in (code length, symbol) ascending
\* order, the code values increase strictly within a length and the first
\* code of a length is (last code of the previous length + 1) shifted left
\* by the difference of the lengths.
CanonicalOrderingIncreasing ==
    (Canonical /\ CodesAssigned) =>
        \A a \in UsedCodes : \A b \in UsedCodes :
            Adjacent(a, b) =>
                IF a.codeLen = b.codeLen
                THEN Compare256(CodeValue(a), CodeValue(b)) < 0
                ELSE CodeValue(b) = LeftShift256(Increment256(CodeValue(a)),
                                                 b.codeLen - a.codeLen)

\* C4 (amended): with the used entries in (code length, symbol) ascending
\* order, the last entry has the code value 0; within a length every code
\* value is its successor's plus one, so the values decrease strictly; and
\* the last code of a length is (first code of the next length + 1) shifted
\* right by the difference of the lengths.
CanonicalOrderingDecreasing ==
    (Canonical /\ CodesAssigned) =>
        \A a \in UsedCodes :
            /\ (\A b \in UsedCodes : ~Before(a, b)) => CodeValue(a) = ClearAll256
            /\ \A b \in UsedCodes :
                   Adjacent(a, b) =>
                       /\ CodeValue(a) =
                              RightShift256(Increment256(CodeValue(b)),
                                            b.codeLen - a.codeLen)
                       /\ a.codeLen = b.codeLen =>
                              Compare256(CodeValue(a), CodeValue(b)) > 0

CanonicalOrderingWitness ==
    /\ Canonical
    /\ pc = "enc_codes"
    /\ \E a \in UsedCodes : \E b \in UsedCodes :
           Adjacent(a, b) /\ a.codeLen = b.codeLen
    /\ \E a \in UsedCodes : \E b \in UsedCodes :
           Adjacent(a, b) /\ a.codeLen < b.codeLen

TruncatedStreamFails ==
    ( /\ variant = "trad"
      /\ pc = "done"
      /\ Len(file) >= TradHeaderLen
      /\ huffmanTree # NULL
      /\ heap[currentNode].value # EOF_CHAR ) => status = "FALSE"

\* C7: when the file given to the traditional decoder ends before the
\* terminator record of the header, ReadHeader fails: the decoder goes no
\* further, returns FALSE and writes nothing.
MalformedHeaderFails ==
    ( /\ variant = "trad"
      /\ truncated
      /\ Len(file) < TradHeaderLen
      /\ pc \notin {"encoded", "dec_start"} ) =>
        /\ pc = "done"
        /\ status = "FALSE"
        /\ output = << >>

RECURSIVE SumCodeLen(_, _, _)
SumCodeLen(cl, in, i) ==
    IF i > Len(in) THEN 0 ELSE cl[in[i]].codeLen + SumCodeLen(cl, in, i + 1)

BodyBits == SumCodeLen(codeList, input, 1) + codeList[EOF_CHAR].codeLen

IsPrefixSeq(a, b) == Len(a) <= Len(b) /\ a = SubSeq(b, 1, Len(a))

CanonicalBodyBits ==
    SumCodeLen(encCodes, input, 1)
    + (IF variant = "clib" THEN encCodes[EOF_CHAR].codeLen ELSE 0)

SingleLeafDepthOne ==
    ( /\ pc \in {"enc_codes", "enc_header", "encoded"}
      /\ encTree # << >>
      /\ encTree[1] = "leaf" ) =>
        IF variant = "trad"
        THEN codeList[encTree[2]].codeLen = 1
        ELSE \E i \in DOMAIN canonicalList :
                 /\ canonicalList[i].value = encTree[2]
                 /\ canonicalList[i].codeLen = 1

\* C16: in the code list of the traditional encoder, of two byte symbols that
\* occur in the input the one with the larger count has a code that is not
\* longer.
LengthsFollowFrequencies ==
    (variant = "trad" /\ pc = "enc_codes") =>
        \A a, b \in 0..255 :
            ( /\ ~encLeaves[a].ignore
              /\ ~encLeaves[b].ignore
              /\ CLess(encLeaves[b].count, encLeaves[a].count) ) =>
                codeList[a].codeLen <= codeList[b].codeLen

\* the byte values that occur in the encoder's input
ActiveBytes == {c \in 0..255 : ~encLeaves[c].ignore}

EqualCounts ==
    \A a, b \in ActiveBytes : encLeaves[a].count = encLeaves[b].count

\* the code length of symbol c in the canonical list
CanonicalLen(c) ==
    LET i == CHOOSE j \in DOMAIN canonicalList : canonicalList[j].value = c
    IN  canonicalList[i].codeLen

ResourcesReleased ==
    (variant \in {"trad", "clib"} /\ pc \in {"encoded", "done"}) =>
        /\ streams = {}
        /\ \A n \in 1..Len(heap) :
               Cardinality({i \in DOMAIN freed : freed[i] = n}) = 1

\* C19: a run of the library whose steps are interleaved with those of
\* another run ends as it does alone: it does not fault, and the decoder
\* returns TRUE with the encoder's input as its output.
RunsIndependent ==
    variant \in {"trad", "clib"} =>
        /\ pc # "crashed"
        /\ pc = "done" => (status = "TRUE" /\ output = input)

\* C20: in a canonical decoder the length of the code read so far is at most
\* 256, and when 256 bits have been read into the register without a match
\* (the length is back at 0 and the register is not clear) the decoder has
\* ended with a failure.
InvalidCodeBound ==
    Canonical =>
        /\ length <= 256
        /\ (pc \in {"decoding", "done"} /\ length = 0 /\ code # ClearAll256) =>
               (pc = "done" /\ status = "FALSE")

\* the indices of the active nodes of a leaf array, and the one that is
\* least in the order (count, level, index)
ActiveIndices(h, ht, elements) ==
    {i \in 0..(elements - 1) : ht[i] # NULL /\ ~h[ht[i]].ignore}

LexBefore(h, ht, i, j) ==
    \/ CLess(h[ht[i]].count, h[ht[j]].count)
    \/ /\ h[ht[i]].count = h[ht[j]].count
       /\ \/ h[ht[i]].level < h[ht[j]].level
          \/ h[ht[i]].level = h[ht[j]].level /\ i < j

LexMinimum(h, ht, elements) ==
    LET act == ActiveIndices(h, ht, elements)
    IN  IF act = {} THEN NONE
        ELSE CHOOSE i \in act : \A j \in act \ {i} : LexBefore(h, ht, i, j)

\* C21: each search of FindMinimumCount returns the index of the active node
\* that is least in the order (count, level, index), and NONE exactly when
\* no node is active.
MinimumSelectionRule ==
    [][/\ pc = "build_min1" =>
              min1' = LexMinimum(heap, huffmanArray, BuildElements)
       /\ pc = "build_min2" =>
              min2' = LexMinimum(heap, huffmanArray, BuildElements)]_vars

\* the leaves of the array BuildHuffmanTree was given that were active
BuildActiveLeaves == {n \in 1..BuildElements : heap[n].count # CZero}

\* the nodes of the tree BuildHuffmanTree returned
BuildTreeNodes == FreeHuffmanTree(heap, huffmanTree)

Occurrences(q, x) == Cardinality({i \in DOMAIN q : q[i] = x})

TreeSizeAtReturn ==
    /\ merges = Cardinality(BuildActiveLeaves) - 1
    /\ huffmanTree # WILD
    /\ \A n \in 1..BuildElements :
           Occurrences(BuildTreeNodes, n) = IF n \in BuildActiveLeaves THEN 1 ELSE 0
    /\ Cardinality({i \in DOMAIN BuildTreeNodes :
                        heap[BuildTreeNodes[i]].value = COMPOSITE_NODE})
           = Cardinality(BuildActiveLeaves) - 1

\* C22: when at least one leaf is active BuildHuffmanTree ends after N - 1
\* merges with a tree of exactly the N active leaves and N - 1 internal
\* nodes, and each merge makes the first minimum the left child and the
\* second the right child.
TreeSize ==
    [][/\ (pc = "build_min2" /\ pc' = "build_min1") =>
              /\ heap'[Len(heap')].left = huffmanArray[min1]
              /\ heap'[Len(heap')].right = huffmanArray[min2']
       /\ (pc' = "build_done" /\ BuildActiveLeaves # {}) =>
              TreeSizeAtReturn']_vars

\* the sum of two counts is the count c, without a carry out of 32 bits
ExactSum(a, b, c) ==
    LET lo == a[2] + b[2]
        hi == a[1] + b[1] + (lo \div 65536)
    IN  hi <= 65535 /\ c = <<hi, lo % 65536>>

LargeCountsCovered ==
    (pc = "build_done" /\ BuildActiveLeaves # {}) =>
        /\ huffmanTree # WILD
        /\ \E i \in 0..(BuildElements - 1) : huffmanArray[i] = huffmanTree
        /\ \A n \in BuildActiveLeaves : Occurrences(BuildTreeNodes, n) >= 1

\* C24: when the encoder counted no active leaf, BuildHuffmanTree returned an
\* empty tree (not an element read outside the leaf array), the encoder
\* does not fault, and the file it writes has no code bits after the header.
ZeroLeavesEmptyTree ==
    ( /\ pc \in {"enc_tree", "enc_codes", "enc_header", "encoded", "crashed"}
      /\ encLeaves # << >>
      /\ \A c \in DOMAIN encLeaves : encLeaves[c].ignore ) =>
        /\ huffmanTree = NULL
        /\ pc # "crashed"
        /\ pc = "encoded" => Len(file) = CHeaderLen

\* the leaves of a tree value (TreeOf), left subtree first
RECURSIVE LeftFirstLeaves(_)
LeftFirstLeaves(t) ==
    IF t[1] = "leaf" THEN <<t>>
    ELSE LeftFirstLeaves(t[2]) \o LeftFirstLeaves(t[3])

\* one (symbol, count) record for each leaf that is not EOF_CHAR
RECURSIVE HeaderRecords(_, _)
HeaderRecords(leaves, i) ==
    IF i > Len(leaves) THEN << >>
    ELSE (IF leaves[i][2] = EOF_CHAR THEN << >>
          ELSE <<leaves[i][2]>> \o CountBytes(leaves[i][3]))
         \o HeaderRecords(leaves, i + 1)

ShiftSemantics ==
    /\ pc = "shifted_left" =>
           /\ \A k \in 0..255 :
                  TestBit256(shiftResult, k) =
                      (k + shiftCount <= 255 /\ TestBit256(shiftBits, k + shiftCount))
           /\ shiftTouched \subseteq 0..LAST_BYTE
    /\ pc = "shifted_right" =>
           /\ \A k \in 0..255 :
                  TestBit256(shiftResult, k) =
                      (k - shiftCount >= 0 /\ TestBit256(shiftBits, k - shiftCount))
           /\ shiftTouched \subseteq 0..LAST_BYTE

\* C27: the bits GetBit returns are the bits written, in order, followed by
\* zero bits: while reading they are a prefix of that sequence, and at EOF
\* they are the bits written and at most 7 zero bits, 8 for each byte of
\* the file.
BitOrderRoundTrip ==
    pc \in {"bit_read", "bit_eof"} =>
        /\ \A k \in 1..Len(bitsRead) :
               bitsRead[k] = IF k <= Len(bitSeq) THEN bitSeq[k] ELSE 0
        /\ pc = "bit_eof" =>
               /\ Len(bitsRead) = 8 * Len(file)
               /\ Len(bitsRead) >= Len(bitSeq)
               /\ Len(bitsRead) - Len(bitSeq) <= 7

BitOrderRoundTripWitness ==
    /\ pc = "bit_eof"
    /\ Len(bitSeq) = 9
    /\ bitSeq[1] = 1
    /\ bitSeq[2] = 0
    /\ bitSeq[9] = 1
    /\ Len(bitsRead) = 16

\* C29: in the traditional decoder the current node is never NULL when it
\* is dereferenced: a step down from the current node lands on a node, for
\* every stream with a terminated header, whatever bits follow it.
NoNullStep ==
    variant = "trad" =>
        /\ pc # "crashed"
        /\ pc = "decoding" => currentNode # NULL

\* the code lengths of the list, Kraft sum at most 1
KraftHolds ==
    /\ \A i \in DOMAIN canonicalList : canonicalList[i].codeLen <= MaxHeaderLen
    /\ KraftSum([i \in DOMAIN canonicalList |-> canonicalList[i].codeLen],
                MaxHeaderLen) <= Pow2(MaxHeaderLen)

\* C30: when the code lengths read from a canonical header satisfy the
\* Kraft inequality, the codes AssignCanonicalCodes gives are pairwise
\* prefix-free: no used entry's code is a prefix of another's.
HeaderCodesPrefixFree ==
    (Canonical /\ pc = "decoding" /\ KraftHolds) =>
        \A a \in UsedCodes : \A b \in UsedCodes \ {a} : ~IsPrefix(a, b)

\* C14: in a step of the counting loop a count changes only when it is
\* below COUNT_T_MAX, and then to its value plus one, which is larger; and
\* when the byte read has a count of COUNT_T_MAX the encoder ends with a
\* failure.
CountSaturation ==
    [][pc = "counting" =>
          /\ \A c \in 0..(NUM_CHARS(variant) - 1) :
                 heap'[c + 1].count # heap[c + 1].count =>
                     /\ CLess(heap[c + 1].count, COUNT_T_MAX)
                     /\ heap'[c + 1].count = CInc(heap[c + 1].count)
                     /\ CLess(heap[c + 1].count, heap'[c + 1].count)
          /\ ( /\ inPos < Len(input)
               /\ heap[input[inPos + 1] + 1].count = COUNT_T_MAX ) =>
                 (pc' = "done" /\ status' = "FALSE")]_vars

CountSaturationWitness ==
    /\ pc = "done"
    /\ status = "FALSE"
    /\ inPos >= 2
    /\ heap[input[inPos] + 1].count = COUNT_T_MAX
    /\ input[1] = input[inPos]

\* C11: when a canonical decoder has read the table of code lengths the
\* encoder wrote, sorted it and assigned the codes, every symbol has the
\* code length the encoder gave it, and every symbol with a non-zero length
\* has the code bits the encoder gave it.
CanonicalDeterminism ==
    (Canonical /\ pc = "decoding") =>
        \A i \in DOMAIN canonicalList :
            LET e == canonicalList[i]
            IN  /\ e.value \in DOMAIN encCodes
                /\ encCodes[e.value].codeLen = e.codeLen
                /\ e.codeLen # 0 => encCodes[e.value].code = e.code

CanonicalDeterminismWitness ==
    /\ Canonical
    /\ pc = "decoding"
    /\ rdPos = 8 * CHeaderLen
    /\ Cardinality(UsedCodes) >= 3
    /\ \E a \in UsedCodes : \E b \in UsedCodes : a.codeLen < b.codeLen
    /\ \A e \in UsedCodes : encCodes[e.value].code = e.code

====
